---- MODULE Spec2Model ----
(***************************************************************************)
(* Model of Space3D (src/inc/3dspace.h): the calibrated pose sampler with  *)
(* its tick binding, gesture handler and optional motion integrator.       *)
(*                                                                         *)
(* Conventions of the model:                                               *)
(*  - an object of class Space3D is a record whose fields are the class's  *)
(*    data members; every method is an operator from the object (and the   *)
(*    sensor values it reads) to the object after the call;                *)
(*  - members no constructor initialises (radialAccel, x..vz, _id,         *)
(*    last_time, lastUpdateTime, velocity_z, hasComp during construction)  *)
(*    start with an arbitrary value drawn in Init;                         *)
(*  - update() written without an argument is update(false);               *)
(*  - "value == nullptr" on a number is read as "value == 0";              *)
(*  - radialAccel is kept as its square (radialAccel = sqrt(radialAccel2));*)
(*  - velocities are kept in units of 9.81e-6/2 m/s and positions in units *)
(*    of 9.81e-9/2 m, so that the float products of update() are integers. *)
(***************************************************************************)
EXTENDS Integers, Sequences, FiniteSets, TLC

VARIABLES
    obj,          \* the Space3D objects, a record of the data members each
    live,         \* live[i]: the constructor of object i has run
    accel,        \* what the accelerometer returns: getX() .. getPitch()
    compass,      \* what the compass returns: getFieldStrength(), heading()
    now,          \* system_timer_current_time(), milliseconds
    timers,       \* the periodic events registered with the system timer
    calibrations, \* calls of calibrateCenter() after construction
    enabled,      \* enabled[i]: the argument of the last motionTracking() call
    last          \* the operation that ran last, and what it did

vars == <<obj, live, accel, compass, now, timers, calibrations, enabled, last>>

(* ------------------------------ bounds -------------------------------- *)
MaxTime == 450
MaxTimers == 3
MaxCalibrations == 1

(* --------------------------- program constants ------------------------ *)
SPIN_THRESHOLD == 100
ENABLE_FALL_SPEED_DECTION == 0
DEVICE_ID_SPACE3D == 8193

Instances == {1, 2}
First == CHOOSE i \in Instances : \A j \in Instances : i <= j

DEVICE_OK == "DEVICE_OK"
DEVICE_CALIBRATION_IN_PROGRESS == "DEVICE_CALIBRATION_IN_PROGRESS"
DEVICE_CALIBRATION_REQUIRED == "DEVICE_CALIBRATION_REQUIRED"
DEVICE_I2C_ERROR == "DEVICE_I2C_ERROR"
DEVICE_INVALID_STATE == "DEVICE_INVALID_STATE"

ShockGestures == {"SHAKE", "2G", "3G", "6G", "8G"}
TiltGestures == {"TILT_LEFT", "TILT_RIGHT", "FACE_UP", "FACE_DOWN"}
Gestures == ShockGestures \cup TiltGestures \cup {"FREEFALL", "NONE"}

(* ------------------------------ inputs -------------------------------- *)
Raw(x, y, z, roll, pitch) == [x |-> x, y |-> y, z |-> z, roll |-> roll, pitch |-> pitch]

RawReadings ==
    { Raw(100, 0, 0, 0, 0), Raw(150, 0, 0, 0, 0), Raw(-60, 120, 1000, 3, -2) }

CompassReadings ==
    { [strength |-> 20, heading |-> 90], [strength |-> 21, heading |-> 90] }

CalibrateCodes == {DEVICE_OK, DEVICE_I2C_ERROR, DEVICE_CALIBRATION_REQUIRED}
SampleRates == {25, 40}
DefaultRates == {25}
TimeSteps == {200, 250}
GarbageIds == {0, 1}
GarbageRadial2 == {0, 40000}
GarbageMotion == {0, 7}

(* ------------------------------ the pose ------------------------------ *)
Pose(x, y, z, roll, pitch, yaw) ==
    [device_x |-> x, device_y |-> y, device_z |-> z,
     device_roll |-> roll, device_pitch |-> pitch, device_yaw |-> yaw]

Center(x, y, z, roll, pitch, yaw) ==
    [CENTER_X |-> x, CENTER_Y |-> y, CENTER_Z |-> z,
     CENTER_ROLL |-> roll, CENTER_PITCH |-> pitch, CENTER_YAW |-> yaw]

ZeroPose == Pose(0, 0, 0, 0, 0, 0)
ZeroCenter == Center(0, 0, 0, 0, 0, 0)

Abs(n) == IF n < 0 THEN -n ELSE n

(* tan(k degrees) * 10^4 for k = 0..89, entry k+1 *)
TanTable ==
    <<
       0, 175, 349, 524, 699, 875, 1051, 1228, 1405, 1584,
       1763, 1944, 2126, 2309, 2493, 2679, 2867, 3057, 3249, 3443,
       3640, 3839, 4040, 4245, 4452, 4663, 4877, 5095, 5317, 5543,
       5774, 6009, 6249, 6494, 6745, 7002, 7265, 7536, 7813, 8098,
       8391, 8693, 9004, 9325, 9657, 10000, 10355, 10724, 11106, 11504,
       11918, 12349, 12799, 13270, 13764, 14281, 14826, 15399, 16003, 16643,
       17321, 18040, 18807, 19626, 20503, 21445, 22460, 23559, 24751, 26051,
       27475, 29042, 30777, 32709, 34874, 37321, 40108, 43315, 47046, 51446,
       56713, 63138, 71154, 81443, 95144, 114301, 143007, 190811, 286363, 572900 >>

(* floor of atan(ay/ax) in degrees, ax > 0, ay >= 0 *)
AtanFloor(ay, ax) ==
    CHOOSE k \in 0..89 :
        /\ TanTable[k + 1] * ax <= ay * 10000
        /\ (k < 89 => TanTable[k + 2] * ax > ay * 10000)

(* the angle of (x, y), x # 0, from a, the floor of atan(|y|/|x|) *)
Quadrant(a, y, x) ==
    LET ex == (y = 0) \/ (Abs(y) = Abs(x))
    IN  IF x > 0 /\ y >= 0 THEN [whole |-> a, exact |-> ex]
        ELSE IF x < 0 /\ y >= 0
             THEN [whole |-> IF ex THEN 180 - a ELSE 179 - a, exact |-> ex]
        ELSE IF x < 0
             THEN [whole |-> 180 + a, exact |-> ex]
        ELSE [whole |-> IF ex THEN 360 - a ELSE 359 - a, exact |-> ex]

(* atan2(y, x) * 180 / M_PI, already moved into [0, 360) by "+= 360 when    *)
(* negative": whole is the floor of the angle, exact says it is an integer. *)
Atan2Deg(y, x) ==
    IF x = 0
    THEN [whole |-> IF y > 0 THEN 90 ELSE IF y < 0 THEN 270 ELSE 0, exact |-> TRUE]
    ELSE Quadrant(AtanFloor(Abs(y), Abs(x)), y, x)

(* getYaw() without the spin threshold *)
YawOf_noThreshold(angle, radial2) == angle

(* the tests of getYaw on the angle it computed *)
YawOf(angle, radial2) ==
    IF angle.whole = 0 /\ angle.exact
    THEN [whole |-> 0, exact |-> TRUE]
    ELSE IF radial2 < SPIN_THRESHOLD * SPIN_THRESHOLD
         THEN [whole |-> 0, exact |-> TRUE]
         ELSE angle

(* Space3D::getYaw: the float it returns, as floor and exactness *)
getYaw(s) ==
    YawOf(Atan2Deg(s.currentState.device_y, s.currentState.device_x), s.radialAccel2)

(* int32_t = float - int: the difference truncated toward zero *)
FloatMinusInt(f, c) ==
    IF f.exact \/ f.whole - c >= 0 THEN f.whole - c ELSE f.whole - c + 1

(* elapsed milliseconds between two readings of the system timer; the    *)
(* clock of the model does not wrap and no timestamp lies in its future   *)
Elapsed(t, since) == t - since

(* update(), lines 255-286: the motion integration when trackMotion is set. *)
(* dt is a float holding milliseconds / 1000.0f, and line 269 compares it   *)
(* with the double 0.2: the float nearest to 0.2 is above the double 0.2,   *)
(* so the halving applies from 200 ms on.                                   *)
Integrate(s, reads, t) ==
    LET dt == Elapsed(t, s.lastUpdateTime)
        ox == s.currentState.device_x
        oy == s.currentState.device_y
        oz == s.currentState.device_z
        g  == IF dt >= 200 THEN 1 ELSE 2
    IN  IF ~s.trackMotion
        THEN [st |-> s, ret |-> DEVICE_OK, accelReads |-> 5, compReads |-> reads]
        ELSE IF ox = 0 \/ oy = 0 \/ oz = 0
        THEN [st |-> [s EXCEPT !.lastUpdateTime = t], ret |-> DEVICE_INVALID_STATE,
              accelReads |-> 5, compReads |-> reads]
        ELSE [st |-> [s EXCEPT !.lastUpdateTime = t,
                               !.vx = s.vx + g * ox * dt,
                               !.vy = s.vy + g * oy * dt,
                               !.vz = s.vz + g * oz * dt,
                               !.x = s.x + (s.vx + g * ox * dt) * dt,
                               !.y = s.y + (s.vy + g * oy * dt) * dt,
                               !.z = s.z + (s.vz + g * oz * dt) * dt],
              ret |-> DEVICE_OK, accelReads |-> 5, compReads |-> reads]

(* update(), lines 241-245: the five offsets *)
Offsets(s, acc) ==
    [s EXCEPT !.currentState.device_x = acc.x - s.centerState.CENTER_X,
              !.currentState.device_y = acc.y - s.centerState.CENTER_Y,
              !.currentState.device_z = acc.z - s.centerState.CENTER_Z,
              !.currentState.device_roll = acc.roll - s.centerState.CENTER_ROLL,
              !.currentState.device_pitch = acc.pitch - s.centerState.CENTER_PITCH]

(* update() that trusts the compass from a field strength of 20 on *)
Yaw_atLeast20(s, cmp) ==
    [s EXCEPT !.currentState.device_yaw =
        IF s.hasComp /\ cmp.strength >= 20
        THEN cmp.heading - s.centerState.CENTER_YAW
        ELSE FloatMinusInt(getYaw(s), s.centerState.CENTER_YAW)]

(* update(), lines 246-253: the yaw, from the compass or estimated *)
Yaw(s, cmp) ==
    [s EXCEPT !.currentState.device_yaw =
        IF s.hasComp /\ cmp.strength > 20
        THEN cmp.heading - s.centerState.CENTER_YAW
        ELSE FloatMinusInt(getYaw(s), s.centerState.CENTER_YAW)]

(* the compass calls of update(): getFieldStrength(), then heading() *)
CompassReads(s, cmp) ==
    IF s.hasComp THEN (IF cmp.strength > 20 THEN 2 ELSE 1) ELSE 0

(* update() without the calibration gate of lines 237-240 *)
update_ungated(s, ignorecal, acc, cmp, t) ==
    Integrate(Yaw(Offsets(s, acc), cmp), CompassReads(s, cmp), t)

(* update() that also stores the pose it computed as the centre reference *)
update_recentring(s, ignorecal, acc, cmp, t) ==
    IF ignorecal = FALSE /\ s.calibrated = FALSE
    THEN [st |-> s, ret |-> DEVICE_CALIBRATION_IN_PROGRESS,
          accelReads |-> 0, compReads |-> 0]
    ELSE [Integrate(Yaw(Offsets(s, acc), cmp), CompassReads(s, cmp), t) EXCEPT
             !.st.centerState =
                 Center(acc.x - s.centerState.CENTER_X, acc.y - s.centerState.CENTER_Y,
                        acc.z - s.centerState.CENTER_Z,
                        acc.roll - s.centerState.CENTER_ROLL,
                        acc.pitch - s.centerState.CENTER_PITCH,
                        Yaw(Offsets(s, acc), cmp).currentState.device_yaw)]

(* update() that also recomputes radialAccel from the pose it computed *)
update_radial(s, ignorecal, acc, cmp, t) ==
    IF ignorecal = FALSE /\ s.calibrated = FALSE
    THEN [st |-> s, ret |-> DEVICE_CALIBRATION_IN_PROGRESS,
          accelReads |-> 0, compReads |-> 0]
    ELSE [Integrate(Yaw(Offsets(s, acc), cmp), CompassReads(s, cmp), t) EXCEPT
             !.st.radialAccel2 =
                 (acc.x - s.centerState.CENTER_X) * (acc.x - s.centerState.CENTER_X)
                 + (acc.y - s.centerState.CENTER_Y) * (acc.y - s.centerState.CENTER_Y)]

(* Space3D::update(bool ignorecal): acc and cmp are what the sensors return *)
update(s, ignorecal, acc, cmp, t) ==
    IF ignorecal = FALSE /\ s.calibrated = FALSE
    THEN [st |-> s, ret |-> DEVICE_CALIBRATION_IN_PROGRESS,
          accelReads |-> 0, compReads |-> 0]
    ELSE Integrate(Yaw(Offsets(s, acc), cmp), CompassReads(s, cmp), t)

(* calibrateCenter(), lines 336-341: the copy of the pose u.st.currentState *)
Recentre(u) ==
    [u EXCEPT !.st.centerState =
        Center(u.st.currentState.device_x, u.st.currentState.device_y,
               u.st.currentState.device_z, u.st.currentState.device_roll,
               u.st.currentState.device_pitch, u.st.currentState.device_yaw)]

(* Space3D::calibrateCenter *)
calibrateCenter(s, acc, cmp, t) == Recentre(update(s, TRUE, acc, cmp, t))

(* Space3D::setup: registers a periodic event (period, source, value) whose *)
(* value is a uint16_t, then moves _id on (int16_t).  tm is the timer list. *)
Inc16(v) == IF v = 32767 THEN -32768 ELSE v + 1

setup(s, tm, owner) ==
    LET id0 == IF s.id = 0 THEN 0 ELSE s.id
    IN  [st |-> [s EXCEPT !.id = Inc16(id0)],
         timers |-> Append(tm, [owner |-> owner, period |-> s.sampleRate,
                                source |-> DEVICE_ID_SPACE3D, value |-> id0 % 65536])]

(* eventReceived() that samples with the calibration gate overridden *)
eventReceived_override(s, e, acc, cmp, t) ==
    IF e.source = DEVICE_ID_SPACE3D /\ e.value = s.id
    THEN [st |-> update(s, TRUE, acc, cmp, t).st, ran |-> TRUE]
    ELSE [st |-> s, ran |-> FALSE]

(* Space3D::eventReceived *)
eventReceived(s, e, acc, cmp, t) ==
    IF e.source = DEVICE_ID_SPACE3D /\ e.value = s.id
    THEN [st |-> update(s, FALSE, acc, cmp, t).st, ran |-> TRUE]
    ELSE [st |-> s, ran |-> FALSE]

(* recalibrate(), lines 326-328: c is the outcome of calibrateCenter(), gate *)
(* the value of calibrated when it completes                               *)
Recalibrated(c, calls) ==
    [st |-> [c.st EXCEPT !.calibrated = TRUE], ret |-> DEVICE_OK,
     accelReads |-> c.accelReads, compReads |-> c.compReads,
     calibrateCalls |-> calls, centerRuns |-> 1, gate |-> c.st.calibrated]

(* recalibrate() that treats only DEVICE_I2C_ERROR as a failure *)
Calibrate_i2cOnly(s1, code, acc, cmp, t) ==
    IF s1.hasComp /\ code = DEVICE_I2C_ERROR
    THEN [st |-> s1, ret |-> DEVICE_I2C_ERROR, accelReads |-> 0, compReads |-> 0,
          calibrateCalls |-> 1, centerRuns |-> 0, gate |-> FALSE]
    ELSE Recalibrated(calibrateCenter(s1, acc, cmp, t), IF s1.hasComp THEN 1 ELSE 0)

(* recalibrate(), lines 314-328, s1 being the object after line 313 *)
Calibrate(s1, code, acc, cmp, t) ==
    IF s1.hasComp /\ code = DEVICE_I2C_ERROR
    THEN [st |-> s1, ret |-> DEVICE_I2C_ERROR, accelReads |-> 0, compReads |-> 0,
          calibrateCalls |-> 1, centerRuns |-> 0, gate |-> FALSE]
    ELSE IF s1.hasComp /\ code = DEVICE_CALIBRATION_REQUIRED
    THEN [st |-> s1, ret |-> DEVICE_CALIBRATION_REQUIRED, accelReads |-> 0,
          compReads |-> 0, calibrateCalls |-> 1, centerRuns |-> 0, gate |-> FALSE]
    ELSE Recalibrated(calibrateCenter(s1, acc, cmp, t), IF s1.hasComp THEN 1 ELSE 0)

(* recalibrate() without the reset of calibrated at line 313 *)
recalibrate_noReset(s, code, acc, cmp, t) == Calibrate(s, code, acc, cmp, t)

(* Space3D::recalibrate: code is what comp.calibrate() returns when called *)
recalibrate(s, code, acc, cmp, t) ==
    Calibrate([s EXCEPT !.calibrated = FALSE], code, acc, cmp, t)

(* setSampleRate(), line 352: r is the outcome of setup() *)
Registered(r) == [st |-> r.st, timers |-> r.timers, ret |-> DEVICE_OK]

(* setSampleRate() without the calibration test of lines 346-349 *)
setSampleRate_ungated(s, rate, tm, owner) ==
    Registered(setup([s EXCEPT !.sampleRate = rate], tm, owner))

(* setSampleRate() that registers the tick before it stores the new rate *)
StoreRate(r, rate) ==
    [st |-> [r.st EXCEPT !.sampleRate = rate], timers |-> r.timers, ret |-> DEVICE_OK]

setSampleRate_late(s, rate, tm, owner) ==
    IF ~s.calibrated
    THEN [st |-> s, timers |-> tm, ret |-> DEVICE_CALIBRATION_IN_PROGRESS]
    ELSE StoreRate(setup(s, tm, owner), rate)

(* Space3D::setSampleRate *)
setSampleRate(s, rate, tm, owner) ==
    IF ~s.calibrated
    THEN [st |-> s, timers |-> tm, ret |-> DEVICE_CALIBRATION_IN_PROGRESS]
    ELSE Registered(setup([s EXCEPT !.sampleRate = rate], tm, owner))

(* Space3D::getSampleRate *)
getSampleRate(s) == s.sampleRate

(* Space3D::getCurrentState *)
getCurrentState(s) == s.currentState

(* Space3D::getCenterState *)
getCenterState(s) == s.centerState

(* motionTracking() that resets position and velocity on every call *)
motionTracking_resetAlways(s, enable) ==
    [s EXCEPT !.x = 0, !.y = 0, !.z = 0, !.vx = 0, !.vy = 0, !.vz = 0]

(* motionTracking() that resets the position only *)
motionTracking_positionOnly(s, enable) ==
    IF enable THEN [s EXCEPT !.x = 0, !.y = 0, !.z = 0] ELSE s

(* Space3D::motionTracking: the assignment of line 205 names the method,    *)
(* not the member trackMotion, which no statement of the class ever writes. *)
motionTracking(s, enable) ==
    IF enable
    THEN [s EXCEPT !.x = 0, !.y = 0, !.z = 0, !.vx = 0, !.vy = 0, !.vz = 0]
    ELSE s

(* The free-fall block of onGestureDetected is guarded by                   *)
(* "#if defined(ENABLE_FALL_SPEED_DECTION)", and the macro is defined (as 0)*)
(* so the block is compiled.                                                *)
FallSpeedCompiled == ENABLE_FALL_SPEED_DECTION \in Int

(* onGestureDetected(), lines 81-87: u is the outcome of update() *)
Radial(u) ==
    [st |-> [u.st EXCEPT !.radialAccel2 =
                u.st.currentState.device_x * u.st.currentState.device_x
                + u.st.currentState.device_y * u.st.currentState.device_y],
     accelReads |-> u.accelReads, compReads |-> u.compReads, fired |-> FALSE]

(* onGestureDetected() whose shock branch skips update() *)
onGestureDetected_noUpdate(s, gesture, acc, cmp, t) ==
    IF gesture \in ShockGestures
    THEN Radial([st |-> s, accelReads |-> 0, compReads |-> 0])
    ELSE IF gesture = "FREEFALL" /\ FallSpeedCompiled
    THEN [st |-> [s EXCEPT !.last_time = t,
                           !.velocity_z = s.velocity_z
                                          + (acc.z - 1000) * Elapsed(t, s.last_time)],
          accelReads |-> 1, compReads |-> 0, fired |-> TRUE]
    ELSE [st |-> s, accelReads |-> 0, compReads |-> 0, fired |-> FALSE]

(* onGestureDetected() that samples on every gesture but free fall *)
onGestureDetected_allSample(s, gesture, acc, cmp, t) ==
    IF gesture # "FREEFALL"
    THEN Radial(update(s, FALSE, acc, cmp, t))
    ELSE [st |-> [s EXCEPT !.last_time = t,
                           !.velocity_z = s.velocity_z
                                          + (acc.z - 1000) * Elapsed(t, s.last_time)],
          accelReads |-> 1, compReads |-> 0, fired |-> TRUE]

(* onGestureDetected() whose shock branch keeps radialAccel when update()  *)
(* was refused                                                             *)
onGestureDetected_checked(s, gesture, acc, cmp, t) ==
    IF gesture \in ShockGestures
    THEN IF s.calibrated
         THEN Radial(update(s, FALSE, acc, cmp, t))
         ELSE [st |-> s, accelReads |-> 0, compReads |-> 0, fired |-> FALSE]
    ELSE IF gesture = "FREEFALL" /\ FallSpeedCompiled
    THEN [st |-> [s EXCEPT !.last_time = t,
                           !.velocity_z = s.velocity_z
                                          + (acc.z - 1000) * Elapsed(t, s.last_time)],
          accelReads |-> 1, compReads |-> 0, fired |-> TRUE]
    ELSE [st |-> s, accelReads |-> 0, compReads |-> 0, fired |-> FALSE]

(* Space3D::onGestureDetected; velocity_z is in units of 9.81e-6 m/s *)
onGestureDetected(s, gesture, acc, cmp, t) ==
    IF gesture \in ShockGestures
    THEN Radial(update(s, FALSE, acc, cmp, t))
    ELSE IF gesture = "FREEFALL" /\ FallSpeedCompiled
    THEN [st |-> [s EXCEPT !.last_time = t,
                           !.velocity_z = s.velocity_z
                                          + (acc.z - 1000) * Elapsed(t, s.last_time)],
          accelReads |-> 1, compReads |-> 0, fired |-> TRUE]
    ELSE [st |-> s, accelReads |-> 0, compReads |-> 0, fired |-> FALSE]

(* The constructors Space3D(accel, rate) and Space3D(accel, comp, rate).    *)
(* s is the raw storage; hasComp is still unset when calibrateCenter() and  *)
(* update() run, and the compass reference is unbound, so a read through it *)
(* yields g, an arbitrary reading.  code is what comp.calibrate() returns   *)
(* ("none" when there is no compass to calibrate); the constructor discards *)
(* it.                                                                      *)
(* lines 153-154, 167-169: c and u are the outcomes of calibrateCenter()    *)
(* and update()                                                             *)
ConstructEnd(c, u, tm, withComp) ==
    [st |-> [u.st EXCEPT !.hasComp = withComp], timers |-> tm,
     accelReads |-> c.accelReads + u.accelReads,
     compReads |-> c.compReads + u.compReads,
     calibrateCalls |-> IF withComp THEN 1 ELSE 0]

(* lines 151-152, 165-166 *)
ConstructUpdate(c, tm, withComp, acc, g, t) ==
    ConstructEnd(c, update([c.st EXCEPT !.calibrated = TRUE], FALSE, acc, g, t),
                 tm, withComp)

(* lines 150, 164: r is the outcome of setup() *)
ConstructCalibrate(r, withComp, acc, g, t) ==
    ConstructUpdate(calibrateCenter(r.st, acc, g, t), r.timers, withComp, acc, g, t)

construct(s, withComp, code, rate, acc, g, t, tm, owner) ==
    ConstructCalibrate(
        setup([s EXCEPT !.sampleRate = rate, !.calibrated = FALSE,
                        !.currentState = ZeroPose, !.centerState = ZeroCenter],
              tm, owner),
        withComp, acc, g, t)

(* ------------------------- state and operations ----------------------- *)
(* storage of a Space3D before its constructor runs *)
Storage(hc, r2, id, m) ==
    [hasComp |-> hc, calibrated |-> FALSE, currentState |-> ZeroPose,
     centerState |-> ZeroCenter, sampleRate |-> 0, radialAccel2 |-> r2,
     vx |-> m, x |-> m, vy |-> m, y |-> m, vz |-> m, z |-> m,
     id |-> id, last_time |-> 0, lastUpdateTime |-> 0, velocity_z |-> 0,
     trackMotion |-> FALSE]

(* the record of the operation that ran last *)
Log(op, inst, arg, ret) ==
    [op |-> op, inst |-> inst, arg |-> arg, ret |-> ret,
     accelReads |-> 0, compReads |-> 0, calibrateCalls |-> 0, centerRuns |-> 0,
     gate |-> FALSE, ran |-> {}, wasZero |-> FALSE, fired |-> FALSE]

NoLog ==
    [op |-> "none", inst |-> 0, arg |-> "none", ret |-> "none",
     accelReads |-> 0, compReads |-> 0, calibrateCalls |-> 0, centerRuns |-> 0,
     gate |-> FALSE, ran |-> {}, wasZero |-> FALSE, fired |-> FALSE]

Boot(S1, S2, A, C) ==
    /\ obj \in {[i \in Instances |-> IF i = First THEN a ELSE b] : a \in S1, b \in S2}
    /\ live = [i \in Instances |-> FALSE]
    /\ accel \in A
    /\ compass \in C
    /\ now = 0
    /\ timers = << >>
    /\ calibrations = 0
    /\ enabled = [i \in Instances |-> FALSE]
    /\ last = NoLog

(* one component; hasComp and radialAccel hold arbitrary values *)
Init ==
    Boot({Storage(hc, r2, 0, 0) : hc \in BOOLEAN, r2 \in GarbageRadial2},
         {Storage(FALSE, 0, 0, 0)}, RawReadings, CompassReadings)

(* two components; _id holds an arbitrary value in each *)
InitShared ==
    Boot({Storage(FALSE, 0, id, 0) : id \in GarbageIds},
         {Storage(FALSE, 0, id, 0) : id \in GarbageIds},
         {Raw(100, 0, 0, 0, 0)}, {[strength |-> 20, heading |-> 90]})

(* one component; hasComp, radialAccel and x, y, z, vx, vy, vz hold arbitrary values *)
InitMotion ==
    Boot({Storage(hc, r2, 0, m) : hc \in BOOLEAN, r2 \in GarbageRadial2, m \in GarbageMotion},
         {Storage(FALSE, 0, 0, 0)}, RawReadings, CompassReadings)

Construct(i) ==
    /\ ~live[i]
    /\ Len(timers) < MaxTimers
    /\ \E withComp \in BOOLEAN, rate \in DefaultRates, g \in CompassReadings :
          \E code \in (IF withComp THEN CalibrateCodes ELSE {"none"}) :
          \E r \in {construct(obj[i], withComp, code, rate, accel, g, now, timers, i)} :
              /\ obj' = [obj EXCEPT ![i] = r.st]
              /\ timers' = r.timers
              /\ last' = [Log("construct", i, [withComp |-> withComp, code |-> code],
                              "none") EXCEPT
                             !.accelReads = r.accelReads, !.compReads = r.compReads,
                             !.calibrateCalls = r.calibrateCalls, !.centerRuns = 1]
    /\ live' = [live EXCEPT ![i] = TRUE]
    /\ UNCHANGED <<accel, compass, now, calibrations, enabled>>

Update(i) ==
    /\ live[i]
    /\ \E ignorecal \in BOOLEAN :
          \E r \in {update(obj[i], ignorecal, accel, compass, now)} :
              /\ obj' = [obj EXCEPT ![i] = r.st]
              /\ last' = [Log("update", i, ignorecal, r.ret) EXCEPT
                             !.accelReads = r.accelReads, !.compReads = r.compReads]
    /\ UNCHANGED <<live, accel, compass, now, timers, calibrations, enabled>>

CalibrateCenter(i) ==
    /\ live[i]
    /\ calibrations < MaxCalibrations
    /\ \E r \in {calibrateCenter(obj[i], accel, compass, now)} :
          /\ obj' = [obj EXCEPT ![i] = r.st]
          /\ last' = [Log("calibrateCenter", i, "none", DEVICE_OK) EXCEPT
                         !.accelReads = r.accelReads, !.compReads = r.compReads,
                         !.centerRuns = 1, !.gate = r.st.calibrated]
    /\ calibrations' = calibrations + 1
    /\ UNCHANGED <<live, accel, compass, now, timers, enabled>>

Recalibrate(i) ==
    /\ live[i]
    /\ calibrations < MaxCalibrations
    /\ \E code \in CalibrateCodes :
          \E r \in {recalibrate(obj[i], code, accel, compass, now)} :
              /\ obj' = [obj EXCEPT ![i] = r.st]
              /\ last' = [Log("recalibrate", i, code, r.ret) EXCEPT
                             !.accelReads = r.accelReads, !.compReads = r.compReads,
                             !.calibrateCalls = r.calibrateCalls,
                             !.centerRuns = r.centerRuns, !.gate = r.gate]
              /\ calibrations' = calibrations + r.centerRuns
    /\ UNCHANGED <<live, accel, compass, now, timers, enabled>>

SetSampleRate(i) ==
    /\ live[i]
    /\ Len(timers) < MaxTimers
    /\ \E rate \in SampleRates :
          \E r \in {setSampleRate(obj[i], rate, timers, i)} :
              /\ obj' = [obj EXCEPT ![i] = r.st]
              /\ timers' = r.timers
              /\ last' = Log("setSampleRate", i, rate, r.ret)
    /\ UNCHANGED <<live, accel, compass, now, calibrations, enabled>>

MotionTracking(i) ==
    /\ live[i]
    /\ \E enable \in BOOLEAN :
          /\ obj' = [obj EXCEPT ![i] = motionTracking(obj[i], enable)]
          /\ enabled' = [enabled EXCEPT ![i] = enable]
          /\ last' = [Log("motionTracking", i, enable, "none") EXCEPT
                         !.wasZero = /\ obj[i].x = 0 /\ obj[i].y = 0 /\ obj[i].z = 0
                                     /\ obj[i].vx = 0 /\ obj[i].vy = 0 /\ obj[i].vz = 0]
    /\ UNCHANGED <<live, accel, compass, now, timers, calibrations>>

(* the message bus delivers a gesture event of the accelerometer *)
Gesture(i) ==
    /\ live[i]
    /\ \E gesture \in Gestures :
          \E r \in {onGestureDetected(obj[i], gesture, accel, compass, now)} :
              /\ obj' = [obj EXCEPT ![i] = r.st]
              /\ last' = [Log("gesture", i, gesture, "none") EXCEPT
                             !.accelReads = r.accelReads, !.compReads = r.compReads,
                             !.fired = r.fired]
    /\ UNCHANGED <<live, accel, compass, now, timers, calibrations, enabled>>

(* the system timer fires one of the registered periodic events; the event *)
(* reaches eventReceived of every constructed component                    *)
Tick ==
    /\ \E k \in 1..Len(timers) :
          \E r \in {[i \in Instances |->
                       IF live[i]
                       THEN eventReceived(obj[i], [source |-> timers[k].source,
                                                   value |-> timers[k].value],
                                          accel, compass, now)
                       ELSE [st |-> obj[i], ran |-> FALSE]]} :
              /\ obj' = [i \in Instances |-> r[i].st]
              /\ last' = [Log("tick", timers[k].owner, timers[k], "none") EXCEPT
                             !.ran = {i \in Instances : r[i].ran}]
    /\ UNCHANGED <<live, accel, compass, now, timers, calibrations, enabled>>

(* the sensors report new values *)
SensorChange ==
    /\ \E a \in RawReadings, c \in CompassReadings :
          /\ <<a, c>> # <<accel, compass>>
          /\ accel' = a
          /\ compass' = c
    /\ last' = Log("sensor", 0, "none", "none")
    /\ UNCHANGED <<obj, live, now, timers, calibrations, enabled>>

(* the accelerometer reports new values *)
AccelChange ==
    /\ \E a \in RawReadings :
          /\ a # accel
          /\ accel' = a
    /\ last' = Log("sensor", 0, "none", "none")
    /\ UNCHANGED <<obj, live, compass, now, timers, calibrations, enabled>>

(* the millisecond clock advances *)
Advance ==
    /\ \E d \in TimeSteps :
          /\ now + d <= MaxTime
          /\ now' = now + d
    /\ last' = Log("clock", 0, "none", "none")
    /\ UNCHANGED <<obj, live, accel, compass, timers, calibrations, enabled>>

(* calibration and sampling of one component *)
Next ==
    \/ Construct(First)
    \/ Update(First)
    \/ CalibrateCenter(First)
    \/ Recalibrate(First)
    \/ SensorChange

Spec == Init /\ [][Next]_vars

(* two components on one tick source, sensors held still *)
NextShared ==
    \/ \E i \in Instances : Construct(i)
    \/ \E i \in Instances : SetSampleRate(i)
    \/ \E i \in Instances : Recalibrate(i)
    \/ Tick

SpecShared == InitShared /\ [][NextShared]_vars

(* motion tracking of one component *)
NextMotion ==
    \/ Construct(First)
    \/ MotionTracking(First)
    \/ Update(First)
    \/ Tick
    \/ SensorChange
    \/ Advance

SpecMotion == InitMotion /\ [][NextMotion]_vars

(* one component; x, y, z, vx, vy, vz hold arbitrary values; the sensors are *)
(* held still                                                                *)
InitFrozen ==
    Boot({Storage(FALSE, r2, 0, m) : r2 \in GarbageRadial2, m \in GarbageMotion},
         {Storage(FALSE, 0, 0, 0)}, RawReadings, {[strength |-> 21, heading |-> 90]})

(* everything that runs between two calls of motionTracking() *)
NextFrozen ==
    \/ Construct(First)
    \/ MotionTracking(First)
    \/ Update(First)
    \/ Gesture(First)
    \/ Recalibrate(First)
    \/ Tick
    \/ Advance

SpecFrozen == InitFrozen /\ [][NextFrozen]_vars

(* one component; hasComp and radialAccel hold arbitrary values *)
InitGesture ==
    Boot({Storage(hc, r2, 0, 0) : hc \in BOOLEAN, r2 \in GarbageRadial2},
         {Storage(FALSE, 0, 0, 0)}, RawReadings, {[strength |-> 20, heading |-> 90]})

(* gesture events between samples and calibrations, compass held still *)
NextGesture ==
    \/ Construct(First)
    \/ Update(First)
    \/ Recalibrate(First)
    \/ Gesture(First)
    \/ AccelChange

SpecGesture == InitGesture /\ [][NextGesture]_vars

(* two components, sensors held still; radialAccel of the first holds an    *)
(* arbitrary value, and the _id values are such that the tick the second    *)
(* registers is the one the first answers to                                *)
InitFrame ==
    Boot({Storage(FALSE, r2, 0, 0) : r2 \in GarbageRadial2}, {Storage(FALSE, 0, 1, 0)},
         {Raw(-60, 120, 1000, 3, -2)}, {[strength |-> 21, heading |-> 90]})

(* every operation on the first component, the second only constructed *)
NextFrame ==
    \/ \E i \in Instances : Construct(i)
    \/ Update(First)
    \/ Gesture(First)
    \/ Recalibrate(First)
    \/ SetSampleRate(First)
    \/ MotionTracking(First)
    \/ Tick

SpecFrame == InitFrame /\ [][NextFrame]_vars

TypeOK ==
    /\ now \in 0..MaxTime
    /\ Len(timers) <= MaxTimers
    /\ calibrations \in 0..MaxCalibrations
    /\ \A i \in Instances : obj[i].trackMotion \in BOOLEAN

(* ------------------------------- claims ------------------------------- *)
MotionOf(s) == <<s.x, s.y, s.z, s.vx, s.vy, s.vz>>

(* the periodic event component i registered in its most recent setup() *)
HasRegistered(i) == \E k \in 1..Len(timers) : timers[k].owner = i

MostRecent(i) ==
    timers[CHOOSE k \in 1..Len(timers) :
              /\ timers[k].owner = i
              /\ \A j \in (k + 1)..Len(timers) : timers[j].owner # i]

(* C1: in a state where the component is not calibrated, update(false)    *)
(* returns DEVICE_CALIBRATION_IN_PROGRESS, reads neither the accelerometer *)
(* nor the compass, and leaves currentState, centerState and the position  *)
(* and velocity as they were.                                              *)
C1_UpdateGated ==
    [][\A i \in Instances :
          (/\ last'.op = "update" /\ last'.inst = i /\ last'.arg = FALSE
           /\ ~obj[i].calibrated)
          => /\ last'.ret = DEVICE_CALIBRATION_IN_PROGRESS
             /\ last'.accelReads = 0
             /\ last'.compReads = 0
             /\ obj'[i].currentState = obj[i].currentState
             /\ obj'[i].centerState = obj[i].centerState
             /\ MotionOf(obj'[i]) = MotionOf(obj[i])]_vars

C1_Witness ==
    /\ last.op = "update" /\ last.arg = FALSE
    /\ last.ret = DEVICE_CALIBRATION_IN_PROGRESS
    /\ ~obj[last.inst].calibrated
    /\ obj[last.inst].currentState.device_x # accel.x - obj[last.inst].centerState.CENTER_X

C3_CalibrateThenUpdateIsZero ==
    [][\A i \in Instances :
          (/\ last.op = "calibrateCenter" /\ last.inst = i
           /\ last'.op = "update" /\ last'.inst = i /\ last'.arg = FALSE
           /\ last'.ret = DEVICE_OK)
          => getCurrentState(obj'[i]) = ZeroPose]_vars

(* C4: with no compass attached, or with calibrate() returning DEVICE_OK,  *)
(* recalibrate() runs calibrateCenter(), ends calibrated and returns       *)
(* DEVICE_OK, and calibrated is still false when calibrateCenter() ends.   *)
C4_RecalibrateSuccess ==
    [][\A i \in Instances :
          (/\ last'.op = "recalibrate" /\ last'.inst = i
           /\ (~obj[i].hasComp \/ last'.arg = DEVICE_OK))
          => /\ last'.centerRuns = 1
             /\ last'.accelReads = 5
             /\ last'.ret = DEVICE_OK
             /\ obj'[i].calibrated
             /\ last'.gate = FALSE
             /\ last'.calibrateCalls = (IF obj[i].hasComp THEN 1 ELSE 0)]_vars

C4_Witness ==
    /\ last.op = "recalibrate"
    /\ last.ret = DEVICE_OK
    /\ last.calibrateCalls = 1
    /\ last.centerRuns = 1
    /\ obj[last.inst].calibrated

(* C5: a delivered tick that carries the source and the value component i  *)
(* registered in its most recent setup() makes component i run update().   *)
C5_OwnTickRunsUpdate ==
    \A i \in Instances :
        (/\ last.op = "tick" /\ live[i] /\ HasRegistered(i)
         /\ last.arg = MostRecent(i))
        => i \in last.ran

(* C6: a tick registered by one component never makes the other component  *)
(* run update().                                                           *)
C6_NoCrossTrigger ==
    last.op = "tick" => last.ran \subseteq {last.arg.owner}

(* C7: while the component is not calibrated, setSampleRate(rate) returns  *)
(* DEVICE_CALIBRATION_IN_PROGRESS and leaves sampleRate, the registered    *)
(* periodic events and _id as they were.                                   *)
C7_SetSampleRateGated ==
    [][\A i \in Instances :
          (/\ last'.op = "setSampleRate" /\ last'.inst = i
           /\ ~obj[i].calibrated)
          => /\ last'.ret = DEVICE_CALIBRATION_IN_PROGRESS
             /\ getSampleRate(obj'[i]) = getSampleRate(obj[i])
             /\ timers' = timers
             /\ obj'[i].id = obj[i].id]_vars

C7_Witness ==
    /\ last.op = "setSampleRate"
    /\ last.ret = DEVICE_CALIBRATION_IN_PROGRESS
    /\ ~obj[last.inst].calibrated
    /\ last.arg # getSampleRate(obj[last.inst])

(* C8: while the component is calibrated, setSampleRate(rate) returns      *)
(* DEVICE_OK, makes getSampleRate() return rate, and registers one more    *)
(* periodic event whose period is rate itself, in milliseconds.            *)
C8_SetSampleRateRegisters ==
    [][\A i \in Instances :
          (/\ last'.op = "setSampleRate" /\ last'.inst = i
           /\ obj[i].calibrated)
          => /\ last'.ret = DEVICE_OK
             /\ getSampleRate(obj'[i]) = last'.arg
             /\ Len(timers') = Len(timers) + 1
             /\ SubSeq(timers', 1, Len(timers)) = timers
             /\ timers'[Len(timers')].period = last'.arg
             /\ timers'[Len(timers')].owner = i
             /\ timers'[Len(timers')].source = DEVICE_ID_SPACE3D]_vars

C8_Witness ==
    /\ last.op = "setSampleRate"
    /\ last.ret = DEVICE_OK
    /\ getSampleRate(obj[last.inst]) = last.arg
    /\ timers[Len(timers)].period = last.arg
    /\ \E k \in 1..Len(timers) : timers[k].owner = last.inst /\ timers[k].period # last.arg

(* C9: after motionTracking(true) the position x, y, z and the velocity    *)
(* vx, vy, vz are all zero, whatever they were before.                     *)
C9_EnableResetsMotion ==
    \A i \in Instances :
        (last.op = "motionTracking" /\ last.inst = i /\ last.arg = TRUE)
        => MotionOf(obj[i]) = <<0, 0, 0, 0, 0, 0>>

C9_Witness ==
    /\ last.op = "motionTracking" /\ last.arg = TRUE
    /\ ~last.wasZero
    /\ MotionOf(obj[last.inst]) = <<0, 0, 0, 0, 0, 0>>

(* C10: once motionTracking(true) was called, an update() that returns     *)
(* DEVICE_OK with a non-zero x offset and a positive elapsed time changes  *)
(* vx; once motionTracking(false) was called, no update() changes the      *)
(* position or the velocity.                                               *)
C10_EnabledUpdateIntegrates ==
    [][\A i \in Instances :
          (last'.op = "update" /\ last'.inst = i /\ last'.ret = DEVICE_OK)
          => /\ (/\ enabled[i]
                 /\ obj'[i].currentState.device_x # 0
                 /\ Elapsed(now, obj[i].lastUpdateTime) > 0)
                => obj'[i].vx # obj[i].vx
             /\ ~enabled[i] => MotionOf(obj'[i]) = MotionOf(obj[i])]_vars

(* C11: motionTracking(false) leaves position and velocity as they are, and *)
(* as long as tracking stays disabled no tick, update, gesture event or     *)
(* recalibration changes them: every step that ends with tracking disabled  *)
(* keeps x, y, z, vx, vy, vz.                                               *)
C11_DisabledMotionFrozen ==
    [][\A i \in Instances :
          ~enabled'[i] => MotionOf(obj'[i]) = MotionOf(obj[i])]_vars

C11_Witness ==
    /\ last.op = "motionTracking"
    /\ last.arg = FALSE
    /\ ~last.wasZero
    /\ obj[First].x # 0
    /\ obj[First].vx # 0
    /\ now > 0

(* C12: whenever a sample has just been taken on the fallback path (no      *)
(* compass, or a compass whose field strength is not above 20), device_yaw  *)
(* of the current pose lies in [0, 360).                                    *)
C12_FallbackYawInRange ==
    \A i \in Instances :
        ( /\ live[i]
          /\ last.inst = i
          /\ last.op \in {"update", "gesture", "recalibrate", "calibrateCenter"}
          /\ last.accelReads = 5
          /\ ~(obj[i].hasComp /\ compass.strength > 20) )
        => /\ getCurrentState(obj[i]).device_yaw >= 0
           /\ getCurrentState(obj[i]).device_yaw < 360

(* the yaw estimate C13 expects for the pose and radial acceleration of s *)
ExpectedEstimate(s) ==
    IF s.radialAccel2 < SPIN_THRESHOLD * SPIN_THRESHOLD
    THEN [whole |-> 0, exact |-> TRUE]
    ELSE Atan2Deg(s.currentState.device_y, s.currentState.device_x)

(* C13: after every update() of a component without compass, the fallback   *)
(* yaw estimate is 0 when radialAccel is below 100, whatever device_x and    *)
(* device_y are, and otherwise the atan2 angle of (device_y, device_x)       *)
(* moved into [0, 360); device_yaw is that estimate minus CENTER_YAW.        *)
C13_FallbackEstimate ==
    \A i \in Instances :
        ( /\ live[i]
          /\ ~obj[i].hasComp
          /\ last.op = "update"
          /\ last.inst = i
          /\ last.ret = DEVICE_OK )
        => /\ getYaw(obj[i]) = ExpectedEstimate(obj[i])
           /\ getYaw(obj[i]).whole \in 0..359
           /\ (obj[i].currentState.device_y < 0 /\ obj[i].radialAccel2 >= 10000
                  => getYaw(obj[i]).whole >= 180)
           /\ getCurrentState(obj[i]).device_yaw
                  = FloatMinusInt(ExpectedEstimate(obj[i]), obj[i].centerState.CENTER_YAW)

C13_Witness ==
    /\ live[First]
    /\ ~obj[First].hasComp
    /\ last.op = "update"
    /\ last.ret = DEVICE_OK
    /\ obj[First].radialAccel2 >= 10000
    /\ obj[First].currentState.device_y < 0
    /\ getYaw(obj[First]).whole >= 180
    /\ ~getYaw(obj[First]).exact

(* C14: an update() that samples takes device_yaw from the compass heading  *)
(* exactly when a compass is attached and its field strength is above 20,   *)
(* and from the fallback estimate otherwise (strength 20 or less, or no     *)
(* compass); either value has CENTER_YAW subtracted.  The compass is asked  *)
(* for its heading only in the first case.                                  *)
C14_YawSource ==
    [][\A i \in Instances :
          ( /\ last'.op = "update"
            /\ last'.inst = i
            /\ last'.accelReads = 5 )
          => IF obj[i].hasComp /\ compass.strength > 20
             THEN /\ obj'[i].currentState.device_yaw
                        = compass.heading - obj[i].centerState.CENTER_YAW
                  /\ last'.compReads = 2
             ELSE /\ obj'[i].currentState.device_yaw
                        = FloatMinusInt(getYaw(obj'[i]), obj[i].centerState.CENTER_YAW)
                  /\ last'.compReads = (IF obj[i].hasComp THEN 1 ELSE 0)]_vars

C14_Witness ==
    /\ last.op = "update"
    /\ last.accelReads = 5
    /\ obj[First].hasComp
    /\ compass.strength = 21
    /\ last.compReads = 2
    /\ obj[First].centerState.CENTER_YAW # 0
    /\ obj[First].currentState.device_yaw
          # FloatMinusInt(getYaw(obj[First]), obj[First].centerState.CENTER_YAW)

(* the five accelerometer-derived fields of a reference, as a raw reading *)
CenterRaw(c) ==
    Raw(c.CENTER_X, c.CENTER_Y, c.CENTER_Z, c.CENTER_ROLL, c.CENTER_PITCH)

(* the five accelerometer-derived fields of a pose, as a raw reading *)
PoseRaw(p) ==
    Raw(p.device_x, p.device_y, p.device_z, p.device_roll, p.device_pitch)

(* C15: for every raw reading r held still while a component without compass *)
(* is constructed, the constructor leaves getCurrentState() at               *)
(* (0, 0, 0, 0, 0, 0) and the centre reference at r; and every update(false) *)
(* before any further calibration returns DEVICE_OK and sets device_x ..     *)
(* device_pitch to the new raw reading minus r, field by field.              *)
C15_ConstructThenOffsets ==
    [][\A i \in Instances :
          /\ ( /\ last'.op = "construct"
               /\ last'.inst = i
               /\ ~last'.arg.withComp )
             => /\ getCurrentState(obj'[i]) = ZeroPose
                /\ CenterRaw(getCenterState(obj'[i])) = accel
          /\ ( /\ last'.op = "update"
               /\ last'.inst = i
               /\ last'.arg = FALSE
               /\ ~obj[i].hasComp
               /\ calibrations = 0 )
             => /\ last'.ret = DEVICE_OK
                /\ getCenterState(obj'[i]) = getCenterState(obj[i])
                /\ \A f \in {"x", "y", "z", "roll", "pitch"} :
                      PoseRaw(getCurrentState(obj'[i]))[f]
                          = accel[f] - CenterRaw(getCenterState(obj[i]))[f]]_vars

(* C16: a freshly constructed component is calibrated exactly when the      *)
(* calibration made during construction succeeded: if a compass is supplied *)
(* and its calibrate() returns DEVICE_I2C_ERROR or                          *)
(* DEVICE_CALIBRATION_REQUIRED, the component is not calibrated after       *)
(* construction.                                                            *)
C16_ConstructCalibratedIffSucceeded ==
    \A i \in Instances :
        (last.op = "construct" /\ last.inst = i)
        => (obj[i].calibrated <=> last.arg.code \in {"none", DEVICE_OK})

(* C17: a shake, 2g, 3g, 6g or 8g gesture handled by a calibrated component *)
(* reads the accelerometer, leaves the current pose at the raw reading of   *)
(* that moment minus the centre reference, and sets radialAccel so that its *)
(* square is device_x^2 + device_y^2 of the pose just written.              *)
C17_ShockGestureSamples ==
    [][\A i \in Instances :
          ( /\ last'.op = "gesture"
            /\ last'.inst = i
            /\ last'.arg \in ShockGestures
            /\ obj[i].calibrated )
          => /\ last'.accelReads = 5
             /\ \A f \in {"x", "y", "z", "roll", "pitch"} :
                   PoseRaw(getCurrentState(obj'[i]))[f]
                       = accel[f] - CenterRaw(getCenterState(obj[i]))[f]
             /\ obj'[i].radialAccel2
                   = getCurrentState(obj'[i]).device_x * getCurrentState(obj'[i]).device_x
                     + getCurrentState(obj'[i]).device_y * getCurrentState(obj'[i]).device_y
             /\ getCenterState(obj'[i]) = getCenterState(obj[i])]_vars

C17_Witness ==
    /\ last.op = "gesture"
    /\ last.arg \in ShockGestures
    /\ obj[First].calibrated
    /\ last.accelReads = 5
    /\ obj[First].radialAccel2 = 58500
    /\ PoseRaw(getCurrentState(obj[First])) = Raw(-210, 120, 1000, 3, -2)
    /\ accel = Raw(-60, 120, 1000, 3, -2)

(* C18: a tilt-left, tilt-right, face-up or face-down gesture, or any      *)
(* gesture code the handler does not know, changes nothing in the component *)
(* (pose, centre reference, calibration state, radialAccel, motion state,   *)
(* fall estimate), reads no sensor and publishes nothing.                   *)
C18_OtherGesturesNoEffect ==
    [][\A i \in Instances :
          ( /\ last'.op = "gesture"
            /\ last'.inst = i
            /\ last'.arg \in TiltGestures \cup {"NONE"} )
          => /\ obj'[i] = obj[i]
             /\ last'.accelReads = 0
             /\ last'.compReads = 0
             /\ ~last'.fired
             /\ last'.ret = "none"]_vars

C18_Witness ==
    /\ last.op = "gesture"
    /\ last.arg \in TiltGestures \cup {"NONE"}
    /\ obj[First].calibrated
    /\ last.accelReads = 0
    /\ PoseRaw(getCurrentState(obj[First])) # Raw(accel.x - obj[First].centerState.CENTER_X,
                                                  accel.y - obj[First].centerState.CENTER_Y,
                                                  accel.z - obj[First].centerState.CENTER_Z,
                                                  accel.roll - obj[First].centerState.CENTER_ROLL,
                                                  accel.pitch - obj[First].centerState.CENTER_PITCH)
    /\ obj[First].radialAccel2
          # getCurrentState(obj[First]).device_x * getCurrentState(obj[First]).device_x
            + getCurrentState(obj[First]).device_y * getCurrentState(obj[First]).device_y

(* C19: with ENABLE_FALL_SPEED_DECTION at its default 0, a free-fall        *)
(* gesture leaves velocity_z and last_time unchanged, reads no sensor and   *)
(* publishes no fall-speed report event.                                    *)
C19_FreeFallDisabled ==
    [][\A i \in Instances :
          ( /\ last'.op = "gesture"
            /\ last'.inst = i
            /\ last'.arg = "FREEFALL"
            /\ ENABLE_FALL_SPEED_DECTION = 0 )
          => /\ obj'[i].velocity_z = obj[i].velocity_z
             /\ obj'[i].last_time = obj[i].last_time
             /\ last'.accelReads = 0
             /\ last'.compReads = 0
             /\ ~last'.fired]_vars

(* C20: the pose read through getCurrentState() when recalibrate() has      *)
(* returned, with DEVICE_OK or with a failure code, is not the uncorrected  *)
(* sample calibrateCenter() took with the gate overridden to seed the       *)
(* centre reference: a recalibrate() that starts with another pose visible  *)
(* does not end with that sample visible.                                   *)
C20_BootstrapSampleNotVisible ==
    [][\A i \in Instances :
          ( /\ last'.op = "recalibrate"
            /\ last'.inst = i
            /\ getCurrentState(obj[i])
                  # getCurrentState(update(obj[i], TRUE, accel, compass, now).st) )
          => getCurrentState(obj'[i])
                # getCurrentState(update(obj[i], TRUE, accel, compass, now).st)]_vars

(* C21: after every successful calibration, the one made by a constructor   *)
(* or any later recalibrate() that returns DEVICE_OK, the x, y, z, roll and *)
(* pitch fields of the centre reference equal the raw accelerometer reading *)
(* taken during that calibration.                                           *)
C21_CenterIsRawReading ==
    \A i \in Instances :
        ( /\ live[i]
          /\ last.inst = i
          /\ \/ last.op = "construct"
             \/ last.op = "recalibrate" /\ last.ret = DEVICE_OK )
        => CenterRaw(getCenterState(obj[i])) = accel

(* the pose p as a centre reference *)
PoseAsCenter(p) ==
    Center(p.device_x, p.device_y, p.device_z, p.device_roll, p.device_pitch,
           p.device_yaw)

(* C22: the centre reference of a constructed component changes only in a   *)
(* step that runs calibrateCenter(), which replaces all six fields together *)
(* by the pose just sampled; update(false), a tick, any gesture event,      *)
(* setSampleRate(), motionTracking() and a failed recalibrate() leave all   *)
(* six fields as they are.                                                  *)
C22_CenterChangesOnlyInCalibrateCenter ==
    [][\A i \in Instances :
          live[i]
          => /\ getCenterState(obj'[i]) # getCenterState(obj[i])
                => /\ last'.inst = i
                   /\ last'.op = "recalibrate"
                   /\ last'.centerRuns = 1
                   /\ getCenterState(obj'[i]) = PoseAsCenter(getCurrentState(obj'[i]))
             /\ ( \/ last'.op \in {"tick", "gesture", "setSampleRate", "motionTracking"}
                  \/ last'.op = "update" /\ last'.arg = FALSE
                  \/ last'.op = "recalibrate" /\ last'.ret # DEVICE_OK )
                => getCenterState(obj'[i]) = getCenterState(obj[i])]_vars

C22_Witness ==
    /\ last.op = "tick"
    /\ First \in last.ran
    /\ obj[First].calibrated
    /\ calibrations = 0
    /\ getCenterState(obj[First]) # ZeroCenter
    /\ getCenterState(obj[First]) # PoseAsCenter(getCurrentState(obj[First]))

(* C23: radialAccel of a constructed component changes only in a step that  *)
(* handles a shake, 2g, 3g, 6g or 8g gesture; update(), a tick,             *)
(* recalibrate(), setSampleRate(), motionTracking() and the other gesture   *)
(* events leave it unchanged.  So the threshold test of the yaw estimate in *)
(* an update() reads the value the last such gesture left, not the lateral  *)
(* magnitude of the pose being computed.                                    *)
C23_RadialChangesOnlyOnShock ==
    [][\A i \in Instances :
          live[i]
          => /\ obj'[i].radialAccel2 # obj[i].radialAccel2
                => /\ last'.inst = i
                   /\ last'.op = "gesture"
                   /\ last'.arg \in ShockGestures
             /\ ( /\ last'.op = "update"
                  /\ last'.inst = i
                  /\ last'.accelReads = 5
                  /\ ~(obj[i].hasComp /\ compass.strength > 20) )
                => getCurrentState(obj'[i]).device_yaw
                      = FloatMinusInt(
                            YawOf(Atan2Deg(getCurrentState(obj'[i]).device_y,
                                           getCurrentState(obj'[i]).device_x),
                                  obj[i].radialAccel2),
                            getCenterState(obj[i]).CENTER_YAW)]_vars

C23_Witness ==
    /\ last.op = "update"
    /\ last.inst = First
    /\ last.accelReads = 5
    /\ ~obj[First].hasComp
    /\ obj[First].radialAccel2 < SPIN_THRESHOLD * SPIN_THRESHOLD
    /\ getCurrentState(obj[First]).device_x * getCurrentState(obj[First]).device_x
       + getCurrentState(obj[First]).device_y * getCurrentState(obj[First]).device_y
          >= SPIN_THRESHOLD * SPIN_THRESHOLD
    /\ getCurrentState(obj[First]).device_y # 0
    /\ getYaw(obj[First]).whole = 0

(* C24: a constructed component that is not calibrated, which is the state  *)
(* a recalibrate() returning DEVICE_I2C_ERROR or                            *)
(* DEVICE_CALIBRATION_REQUIRED leaves, stays not calibrated and keeps its   *)
(* current pose in every tick, gesture event, update(false) and             *)
(* setSampleRate() step, none of which calibrates the compass or the centre *)
(* reference; only recalibrate() makes it calibrated again.                 *)
C24_FailedRecalibrateSticks ==
    [][\A i \in Instances :
          (live[i] /\ ~obj[i].calibrated)
          => /\ ( \/ last'.op \in {"tick", "gesture", "setSampleRate"}
                  \/ last'.op = "update" /\ last'.arg = FALSE )
                => /\ ~obj'[i].calibrated
                   /\ getCurrentState(obj'[i]) = getCurrentState(obj[i])
                   /\ last'.calibrateCalls = 0
                   /\ last'.centerRuns = 0
             /\ obj'[i].calibrated
                => /\ last'.op = "recalibrate"
                   /\ last'.inst = i
                   /\ last'.ret = DEVICE_OK]_vars

C24_Witness ==
    /\ last.op = "tick"
    /\ First \in last.ran
    /\ live[First]
    /\ ~obj[First].calibrated
    /\ getCurrentState(obj[First])
          # getCurrentState(update(obj[First], TRUE, accel, compass, now).st)

(* C25: an update() that returns DEVICE_OK while motion tracking is enabled *)
(* integrates: with dt the milliseconds elapsed since the previous          *)
(* integration and a = offset * 9.81 / 1000 per axis, each velocity grows   *)
(* by a * dt when dt <= 200 ms and by (a / 2) * dt when dt > 200 ms, and    *)
(* each position grows by the updated velocity times dt.  (Velocities are   *)
(* in units of 9.81e-6 / 2 m/s, positions in units of 9.81e-9 / 2 m.)       *)
C25_IntegrationStep ==
    [][\A i \in Instances :
          ( /\ last'.op = "update"
            /\ last'.inst = i
            /\ last'.ret = DEVICE_OK
            /\ enabled[i] )
          => \E g \in {IF Elapsed(now, obj[i].lastUpdateTime) > 200 THEN 1 ELSE 2} :
             \E dt \in {Elapsed(now, obj[i].lastUpdateTime)} :
                /\ obj'[i].vx = obj[i].vx + g * getCurrentState(obj'[i]).device_x * dt
                /\ obj'[i].vy = obj[i].vy + g * getCurrentState(obj'[i]).device_y * dt
                /\ obj'[i].vz = obj[i].vz + g * getCurrentState(obj'[i]).device_z * dt
                /\ obj'[i].x = obj[i].x + obj'[i].vx * dt
                /\ obj'[i].y = obj[i].y + obj'[i].vy * dt
                /\ obj'[i].z = obj[i].z + obj'[i].vz * dt]_vars

(* C26: the update() that follows motionTracking(true) directly and returns *)
(* DEVICE_OK integrates with dt equal to the tick period, sampleRate ms,    *)
(* whatever the clock shows: each velocity grows by a * sampleRate and each *)
(* position by the updated velocity times sampleRate.  (Units as in C25;    *)
(* the tick periods of the model are below 200 ms, so nothing is halved.)   *)
C26_FirstStepUsesTickPeriod ==
    [][\A i \in Instances :
          ( /\ last.op = "motionTracking"
            /\ last.arg = TRUE
            /\ last.inst = i
            /\ last'.op = "update"
            /\ last'.inst = i
            /\ last'.ret = DEVICE_OK )
          => \E dt \in {getSampleRate(obj[i])} :
                /\ obj'[i].vx = obj[i].vx + 2 * getCurrentState(obj'[i]).device_x * dt
                /\ obj'[i].vy = obj[i].vy + 2 * getCurrentState(obj'[i]).device_y * dt
                /\ obj'[i].vz = obj[i].vz + 2 * getCurrentState(obj'[i]).device_z * dt
                /\ obj'[i].x = obj[i].x + obj'[i].vx * dt
                /\ obj'[i].y = obj[i].y + obj'[i].vy * dt
                /\ obj'[i].z = obj[i].z + obj'[i].vz * dt]_vars

(* C27: a shake, 2g, 3g, 6g or 8g gesture handled while the component is    *)
(* not calibrated reads no sensor and leaves the current pose unchanged,    *)
(* and still sets radialAccel to the lateral magnitude of that unchanged    *)
(* pose: its square becomes device_x^2 + device_y^2.                        *)
C27_ShockWhileNotCalibrated ==
    [][\A i \in Instances :
          ( /\ last'.op = "gesture"
            /\ last'.inst = i
            /\ last'.arg \in ShockGestures
            /\ ~obj[i].calibrated )
          => /\ last'.accelReads = 0
             /\ last'.compReads = 0
             /\ getCurrentState(obj'[i]) = getCurrentState(obj[i])
             /\ ~obj'[i].calibrated
             /\ obj'[i].radialAccel2
                   = getCurrentState(obj[i]).device_x * getCurrentState(obj[i]).device_x
                     + getCurrentState(obj[i]).device_y * getCurrentState(obj[i]).device_y]_vars

C27_Witness ==
    /\ last.op = "gesture"
    /\ last.arg \in ShockGestures
    /\ last.accelReads = 0
    /\ live[First]
    /\ ~obj[First].calibrated
    /\ obj[First].radialAccel2 = 58500
    /\ PoseRaw(getCurrentState(obj[First])) = Raw(-210, 120, 1000, 3, -2)
    /\ accel = Raw(100, 0, 0, 0, 0)

====
